---------------------------- MODULE Spec2Model ----------------------------
(***************************************************************************)
(* Transaction witnesses of chain-core (src/chain-core/src/tx/witness):    *)
(* the RLP codec of TxInWitness / TxWitness and TxInWitness::              *)
(* verify_tx_address; and the TransactionService of client-index           *)
(* (src/client-index/src/service/transaction_service.rs) over a Storage.   *)
(*                                                                         *)
(* Values.  A digest (H256) is a sequence of integers: txid_hash is the    *)
(* ideal collision-free hash, txid_hash(bs) = <<Len(bs)>> \o bs, so that   *)
(* equal digests have equal pre-images and the concatenation of digests   *)
(* parses in one way only (the real digests are fixed-width).  Keys are    *)
(* integers.  The curve library (secp256k1) is modelled by what its        *)
(* functions return at the call sites of this file.                        *)
(***************************************************************************)
EXTENDS Integers, Sequences, FiniteSets, TLC

VARIABLES
    tx,          \* verify: the transaction handed to verify_tx_address
    witness,     \* verify: the TxInWitness (self)
    address,     \* verify: the expected ExtendedAddr
    vres,        \* verify: what the last call returned, None before a call
    vlog,        \* verify: the library calls the last call made, in order
    origin,      \* verify: how the caller derived the inputs from verified ones
    value,       \* codec: the TxWitness (a list of TxInWitness) held by the sender
    wire,        \* codec: the RLP item on the wire, NoWire before any
    sent,        \* codec: what the RLP item on the wire is the encoding of
    decoded,     \* codec: what decoding the RLP item returned, None before
    heap,        \* calls: the transactions, witnesses and addresses callers borrow
    frame,       \* calls: per caller, the stack frame of its verify_tx_address
    scratch,     \* calls: per slot, the running digest `pk_hash`
    storage,     \* service: per keyspace, the bytes the Storage holds per key
    history,     \* service: the set and clear operations performed, in order
    lastGet      \* service: the get performed since the last set or clear

verifyVars == <<tx, witness, address, vres, vlog, origin>>
codecVars == <<value, wire, sent, decoded>>
concVars == <<heap, frame, scratch>>
serviceVars == <<storage, history, lastGet>>
vars ==
    <<tx, witness, address, vres, vlog, origin, value, wire, sent, decoded,
      heap, frame, scratch, storage, history, lastGet>>

-----------------------------------------------------------------------------
(* Bounds *)

MaxOps == 2      \* longest proof path
NTx == 2         \* number of distinct transactions
MaxWitnesses == 2 \* longest TxWitness list that is encoded
MaxFields == 5   \* most fields of a received RLP list
NCallers == 2    \* concurrent callers of verify_tx_address
MaxHistory == 3  \* most set and clear operations on one TransactionService

-----------------------------------------------------------------------------
(* Result values *)

None == "None"
Ok == "Ok"
\* secp256k1::Error variants returned by verify_tx_address
InvalidPublicKey == "InvalidPublicKey"
InvalidSignature == "InvalidSignature"
IncorrectSignature == "IncorrectSignature"
InvalidMessage == "InvalidMessage"

\* The specification's names for the outcomes of verify_tx_address.
AddressMismatch == InvalidPublicKey
SchemeAddressMismatch == InvalidSignature
SignatureRecoveryFailed == InvalidSignature
SignatureInvalid == IncorrectSignature

-----------------------------------------------------------------------------
(* Hashing and transactions *)

\* txid_hash: the ideal hash (self-delimiting, hence injective on sequences
\* and on concatenations of digests).
txid_hash(bs) == <<Len(bs)>> \o bs

\* Tx: a transaction is given by its content; tx.id() is the digest of its
\* canonical serialization, derived by the transaction itself.
Txs == {[content |-> 100 + t] : t \in 1..NTx}
TxId(t) == txid_hash(<<t.content>>)
TxIds == {TxId(t) : t \in Txs}

\* Message::from_slice(tx.id().as_bytes()): the 32 bytes of the id; a slice
\* of another length (here: the empty one) is no message.
Message_from_slice(id) ==
    IF id = <<>>
    THEN [ok |-> FALSE, err |-> InvalidMessage, msg |-> <<>>]
    ELSE [ok |-> TRUE, err |-> Ok, msg |-> id]

-----------------------------------------------------------------------------
(* Keys and signatures (secp256k1) *)

SecretKeys == {1, 2}
PublicKey_from_secret_key(k) == k
\* pubkey_combine of two keys a < b (key aggregation)
pubkey_combine(a, b) == 10 * a + b
\* PublicKey::serialize(): the 33 bytes of the compressed point
PublicKey_serialize(pk) == <<pk>>

\* RecoverableSignature: who signed what, the recovery id, and whether s is
\* in the upper half of the group order (a malleated signature).
BaseRid(k, m) == (k + m[Len(m)]) % 2
sign_recoverable(m, k) ==
    [signer |-> k, msg |-> m, rid |-> BaseRid(k, m), highS |-> FALSE]
CorrectRid(sig) ==
    (BaseRid(sig.signer, sig.msg) + (IF sig.highS THEN 1 ELSE 0)) % 2
EcdsaSigs ==
    [signer : SecretKeys, msg : TxIds, rid : 0..3, highS : BOOLEAN]

\* A key no secret key of the model belongs to: what recovery yields from a
\* signature and a message (or recovery id) it was not made for.
ForeignKey(m, sig) == 100 + 10 * sig.signer + sig.rid

\* secp.recover(&message, &sig)
recover(m, sig) ==
    IF sig.rid >= 2
    THEN [ok |-> FALSE, err |-> InvalidSignature, pk |-> 0]
    ELSE IF m = sig.msg /\ sig.rid = CorrectRid(sig)
    THEN [ok |-> TRUE, err |-> Ok, pk |-> PublicKey_from_secret_key(sig.signer)]
    ELSE [ok |-> TRUE, err |-> Ok, pk |-> ForeignKey(m, sig)]

\* sig.to_standard(): the signature without its recovery id
to_standard(sig) == [signer |-> sig.signer, msg |-> sig.msg, highS |-> sig.highS]

\* secp.verify(&message, &standard, &pk): the signature must be normalised
\* (low s) and pk one of the keys it recovers to on this message.
verify(m, std, pk) ==
    IF /\ ~std.highS
       /\ \E r \in 0..3 :
            LET rec == recover(m, [signer |-> std.signer, msg |-> std.msg,
                                   rid |-> r, highS |-> std.highS])
            IN rec.ok /\ rec.pk = pk
    THEN Ok
    ELSE IncorrectSignature

\* RedeemAddress::from(&pk) (injective on keys); RedeemAddress::default()
RedeemAddress_from(pk) == 1000 + pk
RedeemAddress_default == 0

\* SchnorrSignature: who signed what.  schnorr_verify(&secp, &message, &sig, &pk)
schnorr_sign(m, pk) == [signer |-> pk, msg |-> m]
schnorr_verify(m, sig, pk) ==
    IF sig.signer = pk /\ sig.msg = m THEN Ok ELSE IncorrectSignature

-----------------------------------------------------------------------------
(* Witnesses and addresses *)

LFound == "LFound"
RFound == "RFound"
ProofOp(path, data) == [path |-> path, data |-> data]

BasicRedeemWitness(sig) == [kind |-> "BasicRedeem", sig |-> sig]
TreeSig(pk, schnorrsig, ops) ==
    [kind |-> "TreeSig", pk |-> pk, schnorrsig |-> schnorrsig, ops |-> ops]

BasicRedeemAddr(addr) == [kind |-> "BasicRedeem", addr |-> addr]
OrTree(roothash) == [kind |-> "OrTree", roothash |-> roothash]

-----------------------------------------------------------------------------
(* TxInWitness::verify_tx_address *)

LibCall(name, arg) == [op |-> name, arg |-> arg]

\* One iteration of the loop over ops: the bytes that are hashed.
\* (variants: the two directions exchanged; the direction ignored)
ProofStepSwapped(pk_hash, op) ==
    IF op.path = LFound
    THEN <<1>> \o op.data \o pk_hash
    ELSE <<1>> \o pk_hash \o op.data
ProofStepNoDirection(pk_hash, op) == <<1>> \o pk_hash \o op.data
ProofStep(pk_hash, op) ==
    IF op.path = LFound
    THEN <<1>> \o pk_hash \o op.data
    ELSE <<1>> \o op.data \o pk_hash

\* The loop `for op in ops.iter()`, from index i on, st = [pk_hash, log].
RECURSIVE FoldOps(_, _, _)
FoldOps(ops, i, st) ==
    IF i > Len(ops)
    THEN st
    ELSE LET bs == ProofStep(st.pk_hash, ops[i])
         IN FoldOps(ops, i + 1,
                    [pk_hash |-> txid_hash(bs),
                     log |-> Append(st.log, LibCall("txid_hash", bs))])

\* The arm (BasicRedeem(sig), BasicRedeem(addr))
\* (variants: without the address comparison; verification before it)
VerifyBasicNoAddressCheck(message, sig, addr) ==
    LET rec == recover(message, sig)
    IN IF ~rec.ok
       THEN [res |-> rec.err, log |-> <<LibCall("recover", <<>>)>>]
       ELSE [res |-> verify(message, to_standard(sig), rec.pk),
             log |-> <<LibCall("recover", <<>>), LibCall("verify", <<>>)>>]
VerifyBasicVerifyFirst(message, sig, addr) ==
    LET rec == recover(message, sig)
    IN IF ~rec.ok
       THEN [res |-> rec.err, log |-> <<LibCall("recover", <<>>)>>]
       ELSE IF verify(message, to_standard(sig), rec.pk) # Ok
       THEN [res |-> verify(message, to_standard(sig), rec.pk),
             log |-> <<LibCall("recover", <<>>), LibCall("verify", <<>>)>>]
       ELSE [res |-> IF addr # RedeemAddress_from(rec.pk)
                     THEN InvalidPublicKey ELSE Ok,
             log |-> <<LibCall("recover", <<>>), LibCall("verify", <<>>),
                       LibCall("RedeemAddress::from", <<>>)>>]
VerifyBasic(message, sig, addr) ==
    LET rec == recover(message, sig)
    IN IF ~rec.ok
       THEN [res |-> rec.err, log |-> <<LibCall("recover", <<>>)>>]
       ELSE LET expected_addr == RedeemAddress_from(rec.pk)
                log2 == <<LibCall("recover", <<>>),
                          LibCall("RedeemAddress::from", <<>>)>>
            IN IF addr # expected_addr
               THEN [res |-> InvalidPublicKey, log |-> log2]
               ELSE [res |-> verify(message, to_standard(sig), rec.pk),
                     log |-> Append(log2, LibCall("verify", <<>>))]

\* The arm (TreeSig(pk, sig, ops), OrTree(roothash))
\* (variant: without the comparison to roothash)
VerifyTreeNoRootCheck(message, pk, sig, ops, roothash) ==
    LET leaf == PublicKey_serialize(pk)
        st == FoldOps(ops, 1, [pk_hash |-> txid_hash(leaf),
                               log |-> <<LibCall("txid_hash", leaf)>>])
    IN [res |-> schnorr_verify(message, sig, pk),
        log |-> Append(st.log, LibCall("schnorr_verify", <<>>))]
VerifyTree(message, pk, sig, ops, roothash) ==
    LET leaf == PublicKey_serialize(pk)
        st == FoldOps(ops, 1, [pk_hash |-> txid_hash(leaf),
                               log |-> <<LibCall("txid_hash", leaf)>>])
    IN IF st.pk_hash # roothash
       THEN [res |-> InvalidPublicKey, log |-> st.log]
       ELSE [res |-> schnorr_verify(message, sig, pk),
             log |-> Append(st.log, LibCall("schnorr_verify", <<>>))]

\* The arm (_, _)
\* (variant: key recovery attempted before failing)
VerifyMismatchRecovers(message, self) ==
    IF self.kind = "BasicRedeem"
    THEN [res |-> recover(message, self.sig).err,
          log |-> <<LibCall("recover", <<>>)>>]
    ELSE [res |-> InvalidSignature, log |-> <<>>]
VerifyMismatch(message, self) == [res |-> InvalidSignature, log |-> <<>>]

verify_tx_address(self, t, addr) ==
    LET message == Message_from_slice(TxId(t))
    IN IF ~message.ok
       THEN [res |-> message.err, log |-> <<>>]
       ELSE IF self.kind = "BasicRedeem" /\ addr.kind = "BasicRedeem"
       THEN VerifyBasic(message.msg, self.sig, addr.addr)
       ELSE IF self.kind = "TreeSig" /\ addr.kind = "OrTree"
       THEN VerifyTree(message.msg, self.pk, self.schnorrsig, self.ops,
                       addr.roothash)
       ELSE VerifyMismatch(message.msg, self)

-----------------------------------------------------------------------------
(* RLP items and the codecs of the primitive fields *)

\* An RLP item is a byte string (its length, and its content) or a list.
RlpData(len, val) == [isList |-> FALSE, len |-> len, val |-> val, items |-> <<>>]
RlpList(items) == [isList |-> TRUE, len |-> 0, val |-> <<>>, items |-> items]

\* Result<_, DecoderError>
DOk(v) == [ok |-> TRUE, err |-> "", val |-> v]
DErr(e) == [ok |-> FALSE, err |-> e, val |-> <<>>]

\* DecoderError::Custom messages of TxInWitness::decode, under the names the
\* specification gives them
MalformedWitness == "Cannot decode a transaction witness"
UnknownWitnessType == "Unknown transaction type"
InvalidRecoveryId == "failed to decode recovery id"
InvalidSignatureEncoding == "failed to decode recoverable signature"
InvalidPublicKeyEncoding == "failed to public key"
InvalidSchnorrEncoding == "failed to decode schnorr signature"

\* s.append(&v) and rlp.as_val::<u8>() for a u8 (the rlp crate: 0 is the
\* empty string, a leading zero byte is rejected)
Rlp_append_u8(v) == IF v = 0 THEN RlpData(0, <<>>) ELSE RlpData(1, <<v>>)
Rlp_as_u8(r) ==
    IF r.isList THEN DErr("RlpExpectedToBeData")
    ELSE IF r.len = 0 THEN DOk(0)
    ELSE IF r.len > 1 THEN DErr("RlpIsTooBig")
    ELSE IF r.val[1] = 0 THEN DErr("RlpInvalidIndirection")
    ELSE DOk(r.val[1])

\* rlp.item_count()
Rlp_item_count(r) ==
    IF r.isList THEN DOk(Len(r.items)) ELSE DErr("RlpExpectedToBeList")

\* The fixed-length byte wrappers RawPubkey, RawSignature and H256
RawPubkeySize == 33
RawSignatureSize == 64
H256Size == 32
FixedBytes_append(size, bytes) == RlpData(size, bytes)
FixedBytes_decode(size, r) ==
    IF r.isList THEN DErr("RlpExpectedToBeData")
    ELSE IF r.len < size THEN DErr("RlpIsTooShort")
    ELSE IF r.len > size THEN DErr("RlpIsTooBig")
    ELSE DOk(r.val)

\* sig.serialize_compact() and RecoverableSignature::from_compact
serialize_compact(sig) ==
    [rid |-> sig.rid,
     bytes |-> <<sig.signer, IF sig.highS THEN 1 ELSE 0>> \o sig.msg]
from_compact(bytes, rid) ==
    IF bytes[1] = 255
    THEN DErr(InvalidSignature)
    ELSE DOk([signer |-> bytes[1], msg |-> SubSeq(bytes, 3, Len(bytes)),
              rid |-> rid, highS |-> bytes[2] = 1])

\* RecoveryId::from_i32
RecoveryId_from_i32(i) ==
    IF i \in 0..3 THEN DOk(i) ELSE DErr("InvalidRecoveryId")

\* PublicKey::from_slice (pk.serialize() is PublicKey_serialize)
PublicKey_from_slice(bytes) ==
    IF bytes[1] = 0 THEN DErr(InvalidPublicKey) ELSE DOk(bytes[1])

\* schnorrsig.serialize_default() and SchnorrSignature::from_default
serialize_default(sig) == <<sig.signer>> \o sig.msg
from_default(bytes) == DOk([signer |-> bytes[1], msg |-> Tail(bytes)])

\* Encodable / Decodable for ProofOp: a list of the direction and the digest
ProofOp_rlp_append(op) ==
    RlpList(<<Rlp_append_u8(IF op.path = LFound THEN 1 ELSE 2),
              FixedBytes_append(H256Size, op.data)>>)
ProofOp_decode(r) ==
    IF ~r.isList \/ Len(r.items) # 2
    THEN DErr("Cannot decode a proof op")
    ELSE LET tag == Rlp_as_u8(r.items[1])
             data == FixedBytes_decode(H256Size, r.items[2])
         IN IF ~tag.ok THEN tag
            ELSE IF tag.val \notin {1, 2} THEN DErr("Unknown proof op")
            ELSE IF ~data.ok THEN data
            ELSE DOk(ProofOp(IF tag.val = 1 THEN LFound ELSE RFound, data.val))

Min(S) == CHOOSE x \in S : \A y \in S : x <= y

\* rlp.list_at(3) as Vec<ProofOp>: each item decoded in order, the first
\* error returned (an item that is no list iterates as the empty list)
ProofOps_as_list(r) ==
    LET rs == [i \in 1..Len(r.items) |-> ProofOp_decode(r.items[i])]
        bad == {i \in 1..Len(r.items) : ~rs[i].ok}
    IN IF bad = {} THEN DOk([i \in 1..Len(r.items) |-> rs[i].val])
       ELSE rs[Min(bad)]

-----------------------------------------------------------------------------
(* Encodable and Decodable for TxInWitness and TxWitness *)

\* impl Encodable for TxInWitness
\* (variant: the recovery id appended after the signature)
RlpAppendRidLast(w) ==
    IF w.kind = "BasicRedeem"
    THEN LET c == serialize_compact(w.sig)
         IN RlpList(<<Rlp_append_u8(0),
                      FixedBytes_append(RawSignatureSize, c.bytes),
                      Rlp_append_u8(c.rid % 256)>>)
    ELSE RlpList(<<Rlp_append_u8(1),
                   FixedBytes_append(RawPubkeySize, PublicKey_serialize(w.pk)),
                   FixedBytes_append(RawSignatureSize, serialize_default(w.schnorrsig)),
                   RlpList([i \in 1..Len(w.ops) |-> ProofOp_rlp_append(w.ops[i])])>>)
TxInWitness_rlp_append(w) ==
    IF w.kind = "BasicRedeem"
    THEN LET c == serialize_compact(w.sig)
             rid == c.rid % 256
         IN RlpList(<<Rlp_append_u8(0), Rlp_append_u8(rid),
                      FixedBytes_append(RawSignatureSize, c.bytes)>>)
    ELSE RlpList(<<Rlp_append_u8(1),
                   FixedBytes_append(RawPubkeySize, PublicKey_serialize(w.pk)),
                   FixedBytes_append(RawSignatureSize, serialize_default(w.schnorrsig)),
                   RlpList([i \in 1..Len(w.ops) |-> ProofOp_rlp_append(w.ops[i])])>>)

\* The arm (0, 3) of TxInWitness::decode
\* (variant: the signature parsed before the recovery id is validated)
DecodeBasicRedeemSigFirst(rlp) ==
    LET rid == Rlp_as_u8(rlp.items[2])
        raw_sig == FixedBytes_decode(RawSignatureSize, rlp.items[3])
    IN IF ~rid.ok THEN rid
       ELSE IF ~raw_sig.ok THEN raw_sig
       ELSE IF ~from_compact(raw_sig.val, 0).ok THEN DErr(InvalidSignatureEncoding)
       ELSE IF ~RecoveryId_from_i32(rid.val).ok THEN DErr(InvalidRecoveryId)
       ELSE DOk(BasicRedeemWitness(from_compact(raw_sig.val, rid.val).val))
DecodeBasicRedeem(rlp) ==
    LET rid == Rlp_as_u8(rlp.items[2])
        raw_sig == FixedBytes_decode(RawSignatureSize, rlp.items[3])
    IN IF ~rid.ok THEN rid
       ELSE IF ~raw_sig.ok THEN raw_sig
       ELSE LET recovery_id == RecoveryId_from_i32(rid.val)
            IN IF ~recovery_id.ok THEN DErr(InvalidRecoveryId)
               ELSE LET sig == from_compact(raw_sig.val, recovery_id.val)
                    IN IF ~sig.ok THEN DErr(InvalidSignatureEncoding)
                       ELSE DOk(BasicRedeemWitness(sig.val))

\* The arm (1, 4) of TxInWitness::decode
DecodeTreeSig(rlp) ==
    LET raw_pk == FixedBytes_decode(RawPubkeySize, rlp.items[2])
    IN IF ~raw_pk.ok THEN raw_pk
       ELSE LET pk == PublicKey_from_slice(raw_pk.val)
            IN IF ~pk.ok THEN DErr(InvalidPublicKeyEncoding)
       ELSE LET raw_sig == FixedBytes_decode(RawSignatureSize, rlp.items[3])
            IN IF ~raw_sig.ok THEN raw_sig
       ELSE LET schnorrsig == from_default(raw_sig.val)
            IN IF ~schnorrsig.ok THEN DErr(InvalidSchnorrEncoding)
       ELSE LET ops == ProofOps_as_list(rlp.items[4])
            IN IF ~ops.ok THEN ops
               ELSE DOk(TreeSig(pk.val, schnorrsig.val, ops.val))

\* impl Decodable for TxInWitness
\* (variant: the tag read before the field count is checked)
TxInWitness_decodeTagFirst(rlp) ==
    IF ~rlp.isList \/ rlp.items = <<>>
    THEN DErr("RlpExpectedToBeList")
    ELSE LET type_tag == Rlp_as_u8(rlp.items[1])
             item_count == Len(rlp.items)
         IN IF ~type_tag.ok THEN type_tag
            ELSE IF type_tag.val = 0 /\ item_count = 3 THEN DecodeBasicRedeem(rlp)
            ELSE IF type_tag.val = 1 /\ item_count = 4 THEN DecodeTreeSig(rlp)
            ELSE IF ~(item_count >= 3 /\ item_count <= 4) THEN DErr(MalformedWitness)
            ELSE DErr(UnknownWitnessType)
TxInWitness_decode(rlp) ==
    LET item_count == Rlp_item_count(rlp)
    IN IF ~item_count.ok THEN item_count
       ELSE IF ~(item_count.val >= 3 /\ item_count.val <= 4)
       THEN DErr(MalformedWitness)
       ELSE LET type_tag == Rlp_as_u8(rlp.items[1])
            IN IF ~type_tag.ok THEN type_tag
               ELSE IF type_tag.val = 0 /\ item_count.val = 3
               THEN DecodeBasicRedeem(rlp)
               ELSE IF type_tag.val = 1 /\ item_count.val = 4
               THEN DecodeTreeSig(rlp)
               ELSE DErr(UnknownWitnessType)

\* impl Encodable for TxWitness: s.append_list(&self.0)
TxWitness_rlp_append(ws) ==
    RlpList([i \in 1..Len(ws) |-> TxInWitness_rlp_append(ws[i])])

\* impl Decodable for TxWitness: rlp.as_list()
TxWitness_decode(rlp) ==
    LET rs == [i \in 1..Len(rlp.items) |-> TxInWitness_decode(rlp.items[i])]
        bad == {i \in 1..Len(rlp.items) : ~rs[i].ok}
    IN IF bad = {} THEN DOk([i \in 1..Len(rlp.items) |-> rs[i].val])
       ELSE rs[Min(bad)]

-----------------------------------------------------------------------------
(* The inputs a caller can hand to verify_tx_address *)

LeafHash(pk) == txid_hash(PublicKey_serialize(pk))
NodeHash(left, right) == txid_hash(<<1>> \o left \o right)

\* MerkleTree: the root committed in an OrTree address for the leaf `leaf`
\* whose proof path is `ops` (the last op is the one next to the root).
RECURSIVE MerkleRoot(_, _)
MerkleRoot(leaf, ops) ==
    IF ops = <<>>
    THEN leaf
    ELSE LET inner == MerkleRoot(leaf, SubSeq(ops, 1, Len(ops) - 1))
             last == ops[Len(ops)]
         IN IF last.path = LFound
            THEN NodeHash(inner, last.data)
            ELSE NodeHash(last.data, inner)

\* The keys of the 2-of-3 tree of get_2_of_3_tx_witness
Pkc1 == pubkey_combine(1, 2)
Pkc2 == pubkey_combine(1, 3)
Pkc3 == pubkey_combine(2, 3)

TreeKeys == {PublicKey_from_secret_key(1), Pkc1}
SchnorrSigs == {schnorr_sign(m, pk) : m \in TxIds, pk \in TreeKeys}
Siblings ==
    {LeafHash(Pkc1), LeafHash(Pkc2), LeafHash(Pkc3),
     NodeHash(LeafHash(Pkc1), LeafHash(Pkc2))}
ProofOps == {ProofOp(p, d) : p \in {LFound, RFound}, d \in Siblings}
Paths == UNION {[1..n -> ProofOps] : n \in 0..MaxOps}

Witnesses ==
    {BasicRedeemWitness(sig) : sig \in EcdsaSigs}
    \cup {TreeSig(pk, sig, ops) : pk \in TreeKeys, sig \in SchnorrSigs, ops \in Paths}

\* The addresses a witness is checked against: fixed ones, and the ones
\* committed for the witness itself.
AddressesFor(t, w) ==
    {BasicRedeemAddr(RedeemAddress_default), OrTree(txid_hash(<<0>>)),
     OrTree(LeafHash(PublicKey_from_secret_key(1)))}
    \cup {BasicRedeemAddr(RedeemAddress_from(PublicKey_from_secret_key(k))) :
            k \in SecretKeys}
    \cup (IF w.kind = "TreeSig"
          THEN {OrTree(MerkleRoot(LeafHash(w.pk), w.ops))}
          ELSE {BasicRedeemAddr(RedeemAddress_from(ForeignKey(TxId(t), w.sig)))})

\* ProofOp i of the path with its direction flipped, the sibling kept
FlipPath(ops, i) ==
    [j \in 1..Len(ops) |->
        IF j = i
        THEN ProofOp(IF ops[j].path = LFound THEN RFound ELSE LFound, ops[j].data)
        ELSE ops[j]]

-----------------------------------------------------------------------------
(* Specification of the calls of verify_tx_address *)

Given == [how |-> "given", i |-> 0]
NotSent == [kind |-> "none", i |-> 0]
NotDecoded == [as |-> "none", res |-> DErr("")]

\* The codec is not in use.
IdleCodec ==
    /\ value = <<>>
    /\ wire = RlpList(<<>>)
    /\ sent = NotSent
    /\ decoded = NotDecoded

\* No call of verify_tx_address is in progress.
IdleVerify ==
    /\ tx = [content |-> 0]
    /\ witness = [kind |-> "none"]
    /\ address = [kind |-> "none"]
    /\ vres = None
    /\ vlog = <<>>
    /\ origin = Given

\* No caller runs.
IdleConc ==
    /\ heap = <<>>
    /\ frame = <<>>
    /\ scratch = <<>>

\* No TransactionService is in use.
IdleService ==
    /\ storage = <<>>
    /\ history = <<>>
    /\ lastGet = [op |-> "none"]

Init ==
    /\ IdleCodec
    /\ IdleConc
    /\ IdleService
    /\ tx \in Txs
    /\ witness \in Witnesses
    /\ address \in AddressesFor(tx, witness)
    /\ vres = None
    /\ vlog = <<>>
    /\ origin = Given

\* witness.verify_tx_address(&tx, &address)
Verify ==
    /\ vres = None
    /\ LET r == verify_tx_address(witness, tx, address)
       IN /\ vres' = r.res
          /\ vlog' = r.log
    /\ UNCHANGED <<tx, witness, address, origin>>
    /\ UNCHANGED <<codecVars, concVars, serviceVars>>

\* The caller flips the direction of ProofOp i of a witness that verified.
FlipOp(i) ==
    /\ vres = Ok
    /\ origin = Given
    /\ witness.kind = "TreeSig"
    /\ i \in 1..Len(witness.ops)
    /\ witness' = [witness EXCEPT !.ops = FlipPath(witness.ops, i)]
    /\ vres' = None
    /\ vlog' = <<>>
    /\ origin' = [how |-> "flip", i |-> i]
    /\ UNCHANGED <<tx, address>>
    /\ UNCHANGED <<codecVars, concVars, serviceVars>>

\* The caller checks a witness that verified against another transaction.
TamperTx(t) ==
    /\ vres = Ok
    /\ origin = Given
    /\ t # tx
    /\ tx' = t
    /\ vres' = None
    /\ vlog' = <<>>
    /\ origin' = [how |-> "tamper", i |-> 0]
    /\ UNCHANGED <<witness, address>>
    /\ UNCHANGED <<codecVars, concVars, serviceVars>>

Next ==
    \/ Verify
    \/ \E i \in 1..MaxOps : FlipOp(i)
    \/ \E t \in Txs : TamperTx(t)

Spec == Init /\ [][Next]_vars

-----------------------------------------------------------------------------
(* Claims about verify_tx_address *)

Called == vres # None
Message == Message_from_slice(TxId(tx)).msg
LogOps == [i \in 1..Len(vlog) |-> vlog[i].op]
IsHashCall(c) == c.op = "txid_hash"
HashCalls == SelectSeq(vlog, IsHashCall)
Calls(name) == \E i \in 1..Len(vlog) : vlog[i].op = name
\* the running digest after the first i ops, as the address was committed
Running(i) == MerkleRoot(LeafHash(witness.pk), SubSeq(witness.ops, 1, i))
TreePair == witness.kind = "TreeSig" /\ address.kind = "OrTree"
BasicPair == witness.kind = "BasicRedeem" /\ address.kind = "BasicRedeem"
MismatchedPair ==
    \/ witness.kind = "BasicRedeem" /\ address.kind = "OrTree"
    \/ witness.kind = "TreeSig" /\ address.kind = "BasicRedeem"

\* C1: on a (TreeSig(pk, sig, ops), OrTree(root)) pair the digest starts at
\* hash(serialize(pk)) and is folded over ops in order, each step hashing
\* 0x01 || running || sibling for LFound and 0x01 || sibling || running for
\* RFound; a final digest other than root fails with AddressMismatch without
\* the Schnorr verifier being called, and one equal to root returns the
\* Schnorr verifier's verdict for (message, sig, pk).
C1_TreeFold ==
    (Called /\ TreePair) =>
        LET n == Len(witness.ops)
        IN /\ Len(HashCalls) = n + 1
           /\ HashCalls[1].arg = PublicKey_serialize(witness.pk)
           /\ \A i \in 1..n :
                HashCalls[i + 1].arg =
                    IF witness.ops[i].path = LFound
                    THEN <<1>> \o Running(i - 1) \o witness.ops[i].data
                    ELSE <<1>> \o witness.ops[i].data \o Running(i - 1)
           /\ IF Running(n) # address.roothash
              THEN vres = AddressMismatch /\ ~Calls("schnorr_verify")
              ELSE /\ vres = schnorr_verify(Message, witness.schnorrsig, witness.pk)
                   /\ vlog[Len(vlog)].op = "schnorr_verify"

C1_Witness ==
    /\ Called /\ TreePair
    /\ Len(witness.ops) = 2
    /\ witness.ops[1].path = LFound /\ witness.ops[2].path = RFound
    /\ vres = Ok

\* C2: a BasicRedeem witness against an OrTree address, and a TreeSig witness
\* against a BasicRedeem address, fail with SchemeAddressMismatch, which is
\* neither SignatureInvalid nor AddressMismatch, and no library call (key
\* recovery, hashing, ECDSA or Schnorr verification) is made.
C2_SchemeMismatch ==
    (Called /\ MismatchedPair) =>
        /\ vres = SchemeAddressMismatch
        /\ vres \notin {SignatureInvalid, AddressMismatch}
        /\ vlog = <<>>

C2_Witness ==
    /\ Called
    /\ witness.kind = "BasicRedeem" /\ address.kind = "OrTree"
    /\ witness.sig = sign_recoverable(TxId(tx), 1)
    /\ vres = SchemeAddressMismatch

\* C3: on a (BasicRedeem(sig), BasicRedeem(addr)) pair: a failed key recovery
\* yields SignatureRecoveryFailed; otherwise an address derived from the
\* recovered key that differs from addr yields AddressMismatch and ECDSA
\* verification is not run; otherwise the result is the verdict of the ECDSA
\* verification of the message against the recovered key.
C3_BasicOrder ==
    (Called /\ BasicPair) =>
        LET rec == recover(Message, witness.sig)
        IN IF ~rec.ok
           THEN vres = SignatureRecoveryFailed /\ LogOps = <<"recover">>
           ELSE IF RedeemAddress_from(rec.pk) # address.addr
           THEN /\ vres = AddressMismatch
                /\ ~Calls("verify")
                /\ LogOps = <<"recover", "RedeemAddress::from">>
           ELSE /\ vres = verify(Message, to_standard(witness.sig), rec.pk)
                /\ vres \in {Ok, SignatureInvalid}
                /\ LogOps = <<"recover", "RedeemAddress::from", "verify">>

C3_Witness ==
    /\ Called /\ BasicPair
    /\ recover(Message, witness.sig).ok
    /\ RedeemAddress_from(recover(Message, witness.sig).pk) = address.addr
    /\ vres = SignatureInvalid

\* C7 as stated: a TreeSig(pk, sig, []) witness against OrTree(root) verifies
\* if and only if hash(serialize(pk)) equals root.
C7_AsStated ==
    (Called /\ TreePair /\ witness.ops = <<>>) =>
        (vres = Ok <=> LeafHash(witness.pk) = address.roothash)

\* C7 (amended): a TreeSig(pk, sig, []) witness against OrTree(root) verifies
\* if and only if hash(serialize(pk)) equals root and the Schnorr verifier
\* accepts (message, sig, pk); it fails with AddressMismatch if and only if
\* hash(serialize(pk)) differs from root.
C7_SingleLeaf ==
    (Called /\ TreePair /\ witness.ops = <<>>) =>
        /\ vres = Ok <=>
             /\ LeafHash(witness.pk) = address.roothash
             /\ schnorr_verify(Message, witness.schnorrsig, witness.pk) = Ok
        /\ vres = AddressMismatch <=> LeafHash(witness.pk) # address.roothash

C7_Witness ==
    /\ Called /\ TreePair /\ witness.ops = <<>>
    /\ LeafHash(witness.pk) = address.roothash
    /\ vres = Ok

\* The witness was obtained by flipping ProofOp origin.i of a two-element
\* path that verified.
FlippedTwo == origin.how = "flip" /\ Len(witness.ops) = 2
\* The flipped op's sibling is the very digest it is combined with.
FlipDegenerate == witness.ops[origin.i].data = Running(origin.i - 1)
ReproducesRoot ==
    /\ TreePair /\ origin = Given /\ Len(witness.ops) = 2
    /\ Running(2) = address.roothash
    /\ schnorr_verify(Message, witness.schnorrsig, witness.pk) = Ok

\* C8 as stated: a TreeSig witness whose key, valid Schnorr signature and
\* two-element path reproduce the root verifies, and flipping the direction
\* of either ProofOp, the siblings kept, fails with AddressMismatch.
C8_AsStated ==
    /\ (Called /\ ReproducesRoot) => vres = Ok
    /\ (Called /\ FlippedTwo) => vres = AddressMismatch

\* C8 (amended): a TreeSig witness whose key, valid Schnorr signature and
\* two-element path reproduce the root verifies; flipping the direction of
\* a ProofOp whose sibling digest differs from the running digest it is
\* combined with fails with AddressMismatch, and flipping one whose sibling
\* equals that running digest changes nothing: the witness still verifies.
C8_FlipDirection ==
    /\ (Called /\ ReproducesRoot) => vres = Ok
    /\ (Called /\ FlippedTwo /\ ~FlipDegenerate) => vres = AddressMismatch
    /\ (Called /\ FlippedTwo /\ FlipDegenerate) => vres = Ok

C8_Witness ==
    /\ Called /\ FlippedTwo /\ ~FlipDegenerate
    /\ origin.i = 2
    /\ witness.pk = Pkc1
    /\ vres = AddressMismatch

\* The BasicRedeem witness holds a signature made by sign_recoverable with
\* key k over m, and the address is the one derived from k's public key.
SignedByAddressKey ==
    /\ BasicPair
    /\ witness.sig = sign_recoverable(witness.sig.msg, witness.sig.signer)
    /\ address.addr =
         RedeemAddress_from(PublicKey_from_secret_key(witness.sig.signer))

\* C9: a BasicRedeem witness holding a signature made with key k over m,
\* checked against the address derived from k's public key, never verifies
\* against a transaction whose id differs from m (it fails with
\* SignatureInvalid, SignatureRecoveryFailed or AddressMismatch), and
\* verifies when the transaction id equals m.
C9_Tampered ==
    (Called /\ SignedByAddressKey) =>
        IF Message # witness.sig.msg
        THEN vres \in {SignatureInvalid, SignatureRecoveryFailed, AddressMismatch}
        ELSE vres = Ok

C9_Witness ==
    /\ Called /\ SignedByAddressKey
    /\ origin.how = "tamper"
    /\ Message # witness.sig.msg
    /\ vres # Ok

-----------------------------------------------------------------------------
(* Specification of the codec *)

\* The witness values that are encoded
CodecMsg == TxId([content |-> 101])
CodecSigs ==
    {[signer |-> 1, msg |-> CodecMsg, rid |-> r, highS |-> h] :
        r \in 0..3, h \in BOOLEAN}
CodecOps == {ProofOp(p, LeafHash(Pkc2)) : p \in {LFound, RFound}}
CodecPaths == UNION {[1..n -> CodecOps] : n \in 0..MaxOps}
CodecWitnesses ==
    {BasicRedeemWitness(sig) : sig \in CodecSigs}
    \cup {TreeSig(Pkc1, schnorr_sign(CodecMsg, Pkc1), ops) : ops \in CodecPaths}
CodecLists == UNION {[1..n -> CodecWitnesses] : n \in 0..MaxWitnesses}

\* The RLP items that arrive from elsewhere: lists of up to MaxFields fields,
\* each field drawn from what can stand at its position, and byte strings.
GoodSigBytes == <<1, 0>> \o CodecMsg
BadSigBytes == <<255, 0>> \o CodecMsg
FieldsAt(pos) ==
    CASE pos = 1 ->
           {Rlp_append_u8(0), Rlp_append_u8(1), Rlp_append_u8(2),
            Rlp_append_u8(255), RlpData(2, <<1, 0>>), RlpList(<<>>)}
      [] pos = 2 ->
           {Rlp_append_u8(0), Rlp_append_u8(3), Rlp_append_u8(4),
            Rlp_append_u8(255),
            RlpData(RawPubkeySize, PublicKey_serialize(Pkc1)),
            RlpData(RawPubkeySize, <<0>>)}
      [] pos = 3 ->
           {RlpData(RawSignatureSize, GoodSigBytes),
            RlpData(RawSignatureSize, BadSigBytes),
            RlpData(RawSignatureSize - 1, GoodSigBytes),
            RlpList(<<>>)}
      [] pos = 4 ->
           {RlpList(<<>>),
            RlpList(<<ProofOp_rlp_append(ProofOp(RFound, LeafHash(Pkc2)))>>),
            RlpData(1, <<7>>)}
      [] OTHER -> {Rlp_append_u8(0)}
RECURSIVE RawFields(_)
RawFields(n) ==
    IF n = 0
    THEN {<<>>}
    ELSE {Append(fs, f) : fs \in RawFields(n - 1), f \in FieldsAt(n)}
RawLists(n) == {RlpList(items) : items \in RawFields(n)}
RawInputs ==
    UNION {RawLists(n) : n \in 0..MaxFields}
    \cup {RlpData(0, <<>>), RlpData(RawSignatureSize, GoodSigBytes)}

InitCodec ==
    /\ IdleVerify
    /\ IdleConc
    /\ IdleService
    /\ \/ value \in CodecLists /\ wire = RlpList(<<>>) /\ sent = NotSent
       \/ value = <<>> /\ wire \in RawInputs /\ sent = [kind |-> "raw", i |-> 0]
    /\ decoded = NotDecoded

\* rlp::encode of the TxInWitness value[i]
EncodeIn(i) ==
    /\ sent = NotSent
    /\ i \in 1..Len(value)
    /\ wire' = TxInWitness_rlp_append(value[i])
    /\ sent' = [kind |-> "in", i |-> i]
    /\ UNCHANGED <<value, decoded>>
    /\ UNCHANGED <<verifyVars, concVars, serviceVars>>

\* rlp::encode of the TxWitness value (witness.rlp_bytes())
EncodeList ==
    /\ sent = NotSent
    /\ wire' = TxWitness_rlp_append(value)
    /\ sent' = [kind |-> "list", i |-> 0]
    /\ UNCHANGED <<value, decoded>>
    /\ UNCHANGED <<verifyVars, concVars, serviceVars>>

\* TxInWitness::decode(&rlp)
DecodeIn ==
    /\ sent.kind \in {"in", "raw"}
    /\ decoded = NotDecoded
    /\ decoded' = [as |-> "in", res |-> TxInWitness_decode(wire)]
    /\ UNCHANGED <<value, wire, sent>>
    /\ UNCHANGED <<verifyVars, concVars, serviceVars>>

\* TxWitness::decode(&rlp)
DecodeList ==
    /\ sent.kind \in {"list", "raw"}
    /\ decoded = NotDecoded
    /\ decoded' = [as |-> "list", res |-> TxWitness_decode(wire)]
    /\ UNCHANGED <<value, wire, sent>>
    /\ UNCHANGED <<verifyVars, concVars, serviceVars>>

NextCodec ==
    \/ \E i \in 1..MaxWitnesses : EncodeIn(i)
    \/ EncodeList
    \/ DecodeIn
    \/ DecodeList

SpecCodec == InitCodec /\ [][NextCodec]_vars

-----------------------------------------------------------------------------
(* Claims about the codec *)

\* C4: decode(encode(w)) = w for every TxInWitness w (BasicRedeem with any
\* recovery id in 0..3, TreeSig with any proof path, the empty one included),
\* and decode(encode(l)) = l for every TxWitness l, the empty list included,
\* with the length and the order of the elements preserved.
C4_RoundTrip ==
    /\ (decoded.as = "in" /\ sent.kind = "in") =>
          /\ decoded.res.ok
          /\ decoded.res.val = value[sent.i]
    /\ (decoded.as = "list" /\ sent.kind = "list") =>
          /\ decoded.res.ok
          /\ Len(decoded.res.val) = Len(value)
          /\ \A i \in 1..Len(value) : decoded.res.val[i] = value[i]

C4_Witness ==
    /\ decoded.as = "list" /\ sent.kind = "list"
    /\ Len(value) = 2
    /\ value[1].kind = "TreeSig" /\ Len(value[1].ops) = 2
    /\ value[2].kind = "BasicRedeem" /\ value[2].sig.rid = 3
    /\ decoded.res.ok

\* The field count and the tag of the RLP list that was decoded
FieldCount == Len(wire.items)
TagField == Rlp_as_u8(wire.items[1])

\* C5: TxInWitness::decode rejects every input whose (tag, field count) is
\* neither (0, 3) nor (1, 4): a field count outside {3, 4} fails with
\* MalformedWitness whatever stands in the tag field, a field count in
\* {3, 4} with another tag fails with UnknownWitnessType, and no witness is
\* returned.
C5_RejectsGarbage ==
    (decoded.as = "in" /\ wire.isList) =>
        /\ FieldCount \notin {3, 4} =>
              ~decoded.res.ok /\ decoded.res.err = MalformedWitness
        /\ (/\ FieldCount \in {3, 4}
            /\ TagField.ok
            /\ <<TagField.val, FieldCount>> \notin {<<0, 3>>, <<1, 4>>}) =>
              ~decoded.res.ok /\ decoded.res.err = UnknownWitnessType

C5_Witness ==
    /\ decoded.as = "in" /\ wire.isList
    /\ FieldCount = 4 /\ TagField.ok /\ TagField.val = 0
    /\ decoded.res.err = UnknownWitnessType

\* A tag-0, three-field list whose recovery indicator is a byte outside 0..3
BadRecoveryId ==
    /\ decoded.as = "in" /\ wire.isList
    /\ FieldCount = 3 /\ TagField.ok /\ TagField.val = 0
    /\ Rlp_as_u8(wire.items[2]).ok
    /\ Rlp_as_u8(wire.items[2]).val \notin 0..3
SigFieldHasLength == FixedBytes_decode(RawSignatureSize, wire.items[3]).ok

\* C6 as stated: a tag-0, three-field witness whose recovery indicator is
\* outside 0..3 fails with InvalidRecoveryId whatever the signature field
\* holds, malformed or of the wrong length.
C6_AsStated ==
    BadRecoveryId => ~decoded.res.ok /\ decoded.res.err = InvalidRecoveryId

\* C6 (amended): a tag-0, three-field witness whose recovery indicator is
\* outside 0..3 always fails to decode; it fails with InvalidRecoveryId
\* whenever the signature field is a byte string of the signature's length,
\* whatever its content, and with the error of decoding the signature field
\* when that field is no byte string of that length.
C6_RecoveryId ==
    BadRecoveryId =>
        /\ ~decoded.res.ok
        /\ SigFieldHasLength => decoded.res.err = InvalidRecoveryId
        /\ ~SigFieldHasLength =>
              decoded.res.err =
                  FixedBytes_decode(RawSignatureSize, wire.items[3]).err

C6_Witness ==
    /\ BadRecoveryId
    /\ SigFieldHasLength
    /\ ~from_compact(wire.items[3].val, 0).ok
    /\ decoded.res.err = InvalidRecoveryId

-----------------------------------------------------------------------------
(* Specification of concurrent calls of verify_tx_address, one step per      *)
(* library call.  The arguments are shared borrows (&self, &Tx,              *)
(* &ExtendedAddr) of objects in `heap`; `secp`, `message`, `pk` and the      *)
(* loop position live in the caller's frame, `pk_hash` in its scratch slot.  *)

Callers == 1..NCallers

ConcTx == [content |-> 101]
ConcPath == <<ProofOp(LFound, LeafHash(Pkc2)), ProofOp(RFound, LeafHash(Pkc3))>>
ConcHeap ==
    [txs |-> <<ConcTx, [content |-> 102]>>,
     witnesses |->
        <<TreeSig(Pkc1, schnorr_sign(TxId(ConcTx), Pkc1), ConcPath),
          BasicRedeemWitness(sign_recoverable(TxId(ConcTx), 1)),
          BasicRedeemWitness([signer |-> 1, msg |-> TxId(ConcTx),
                              rid |-> 2, highS |-> FALSE])>>,
     addresses |->
        <<OrTree(MerkleRoot(LeafHash(Pkc1), ConcPath)),
          BasicRedeemAddr(RedeemAddress_from(PublicKey_from_secret_key(1)))>>]

IdleFrame ==
    [pc |-> "idle", t |-> 0, w |-> 0, a |-> 0, message |-> <<>>,
     pk |-> 0, i |-> 0, res |-> None]

\* The slot that holds a caller's `let mut pk_hash`: its own stack.
\* (variant: one static buffer for all callers)
SlotShared(c) == 1
Slot(c) == c

Self(c) == heap.witnesses[frame[c].w]
Addr(c) == heap.addresses[frame[c].a]
Done(c, r) == [frame EXCEPT ![c].pc = "done", ![c].res = r]

InitConc ==
    /\ IdleVerify
    /\ IdleCodec
    /\ IdleService
    /\ heap = ConcHeap
    /\ frame = [c \in Callers |-> IdleFrame]
    /\ scratch = [c \in Callers |-> <<>>]

\* Entry: the context and the message are built from the transaction id.
Begin(c, t, w, a) ==
    /\ frame[c].pc = "idle"
    /\ LET message == Message_from_slice(TxId(heap.txs[t]))
       IN frame' = [frame EXCEPT ![c] =
                      [pc |-> IF message.ok THEN "match" ELSE "done",
                       t |-> t, w |-> w, a |-> a, message |-> message.msg,
                       pk |-> 0, i |-> 0,
                       res |-> IF message.ok THEN None ELSE message.err]]
    /\ UNCHANGED <<heap, scratch>>
    /\ UNCHANGED <<verifyVars, codecVars, serviceVars>>

\* match (&self, address)
Dispatch(c) ==
    /\ frame[c].pc = "match"
    /\ frame' =
         IF Self(c).kind = "BasicRedeem" /\ Addr(c).kind = "BasicRedeem"
         THEN [frame EXCEPT ![c].pc = "recover"]
         ELSE IF Self(c).kind = "TreeSig" /\ Addr(c).kind = "OrTree"
         THEN [frame EXCEPT ![c].pc = "leaf"]
         ELSE Done(c, VerifyMismatch(frame[c].message, Self(c)).res)
    /\ UNCHANGED <<heap, scratch>>
    /\ UNCHANGED <<verifyVars, codecVars, serviceVars>>

\* let pk = secp.recover(&message, &sig)?
Recover(c) ==
    /\ frame[c].pc = "recover"
    /\ LET rec == recover(frame[c].message, Self(c).sig)
       IN frame' = IF rec.ok
                   THEN [frame EXCEPT ![c].pc = "compare", ![c].pk = rec.pk]
                   ELSE Done(c, rec.err)
    /\ UNCHANGED <<heap, scratch>>
    /\ UNCHANGED <<verifyVars, codecVars, serviceVars>>

\* if *addr != expected_addr
CompareAddr(c) ==
    /\ frame[c].pc = "compare"
    /\ frame' = IF Addr(c).addr # RedeemAddress_from(frame[c].pk)
                THEN Done(c, InvalidPublicKey)
                ELSE [frame EXCEPT ![c].pc = "verify"]
    /\ UNCHANGED <<heap, scratch>>
    /\ UNCHANGED <<verifyVars, codecVars, serviceVars>>

\* secp.verify(&message, &sig.to_standard(), &pk)
EcdsaVerify(c) ==
    /\ frame[c].pc = "verify"
    /\ frame' = Done(c, verify(frame[c].message, to_standard(Self(c).sig),
                               frame[c].pk))
    /\ UNCHANGED <<heap, scratch>>
    /\ UNCHANGED <<verifyVars, codecVars, serviceVars>>

\* let mut pk_hash = txid_hash(&pk.serialize())
LeafStep(c) ==
    /\ frame[c].pc = "leaf"
    /\ scratch' = [scratch EXCEPT
                      ![Slot(c)] = txid_hash(PublicKey_serialize(Self(c).pk))]
    /\ frame' = [frame EXCEPT ![c].pc = "fold", ![c].i = 1]
    /\ UNCHANGED heap
    /\ UNCHANGED <<verifyVars, codecVars, serviceVars>>

\* one iteration of `for op in ops.iter()`
FoldStep(c) ==
    /\ frame[c].pc = "fold"
    /\ frame[c].i <= Len(Self(c).ops)
    /\ scratch' = [scratch EXCEPT
                      ![Slot(c)] = txid_hash(ProofStep(scratch[Slot(c)],
                                                       Self(c).ops[frame[c].i]))]
    /\ frame' = [frame EXCEPT ![c].i = frame[c].i + 1]
    /\ UNCHANGED heap
    /\ UNCHANGED <<verifyVars, codecVars, serviceVars>>

\* if pk_hash != *roothash
RootCheck(c) ==
    /\ frame[c].pc = "fold"
    /\ frame[c].i > Len(Self(c).ops)
    /\ frame' = IF scratch[Slot(c)] # Addr(c).roothash
                THEN Done(c, InvalidPublicKey)
                ELSE [frame EXCEPT ![c].pc = "schnorr"]
    /\ UNCHANGED <<heap, scratch>>
    /\ UNCHANGED <<verifyVars, codecVars, serviceVars>>

\* schnorr_verify(&secp, &message, &sig, &pk)
SchnorrVerify(c) ==
    /\ frame[c].pc = "schnorr"
    /\ frame' = Done(c, schnorr_verify(frame[c].message, Self(c).schnorrsig,
                                       Self(c).pk))
    /\ UNCHANGED <<heap, scratch>>
    /\ UNCHANGED <<verifyVars, codecVars, serviceVars>>

\* The caller takes the result; its frame is gone.
Return(c) ==
    /\ frame[c].pc = "done"
    /\ frame' = [frame EXCEPT ![c] = IdleFrame]
    /\ UNCHANGED <<heap, scratch>>
    /\ UNCHANGED <<verifyVars, codecVars, serviceVars>>

NextConc ==
    \/ \E c \in Callers, t \in DOMAIN heap.txs, w \in DOMAIN heap.witnesses,
          a \in DOMAIN heap.addresses : Begin(c, t, w, a)
    \/ \E c \in Callers : Dispatch(c)
    \/ \E c \in Callers : Recover(c)
    \/ \E c \in Callers : CompareAddr(c)
    \/ \E c \in Callers : EcdsaVerify(c)
    \/ \E c \in Callers : LeafStep(c)
    \/ \E c \in Callers : FoldStep(c)
    \/ \E c \in Callers : RootCheck(c)
    \/ \E c \in Callers : SchnorrVerify(c)
    \/ \E c \in Callers : Return(c)

SpecConc == InitConc /\ [][NextConc]_vars

-----------------------------------------------------------------------------
(* Claims about concurrent calls *)

\* What one call alone returns for the arguments of caller c
Alone(c) ==
    verify_tx_address(heap.witnesses[frame[c].w], heap.txs[frame[c].t],
                      heap.addresses[frame[c].a]).res
SameArgs(c, d) ==
    /\ frame[c].t = frame[d].t
    /\ frame[c].w = frame[d].w
    /\ frame[c].a = frame[d].a
Finished(c) == frame[c].pc = "done"
Touched(c) == frame'[c] # frame[c] \/ scratch'[c] # scratch[c]

\* C10: verify_tx_address is a function of (transaction, witness, address):
\* every call, however it is interleaved with other calls on the same or
\* other arguments, returns what a call alone returns for its arguments, so
\* calls with identical arguments return the same result; and no step of a
\* call changes the transaction, the witness, the address, or the frame or
\* running digest of another call.
C10_Pure ==
    /\ [](\A c \in Callers : Finished(c) => frame[c].res = Alone(c))
    /\ [](\A c, d \in Callers :
            (Finished(c) /\ Finished(d) /\ SameArgs(c, d)) =>
                frame[c].res = frame[d].res)
    /\ [][heap' = heap]_vars
    /\ [][\A c, d \in Callers : (c # d /\ Touched(c)) => ~Touched(d)]_vars

C10_Witness ==
    /\ Finished(1) /\ frame[1].res = Ok
    /\ frame[2].pc = "fold" /\ frame[2].i = 2
    /\ SameArgs(1, 2)
    /\ Self(1).kind = "TreeSig"

-----------------------------------------------------------------------------
(* TransactionService (client-index/src/service/transaction_service.rs)     *)

KEYSPACE == "index_transaction"
\* a keyspace of the same storage that other services use
OtherKeyspace == "index_address"
Keyspaces == {KEYSPACE, OtherKeyspace}

\* Option<_>
OptNone == [some |-> FALSE]
OptSome(v) == [some |-> TRUE, val |-> v]

DeserializationError == "DeserializationError"

\* TxId::zero(), and the identifiers the service is called with
TxId_zero == <<0>>
ServiceIds == TxIds \cup {TxId_zero}

\* rlp::encode(tx) and rlp::decode::<Tx>(bytes): the canonical encoding of a
\* transaction is a list of its fields
Tx_encode(t) == RlpList(<<Rlp_append_u8(t.content)>>)
Tx_decode(r) ==
    IF ~r.isList THEN DErr("RlpExpectedToBeList")
    ELSE IF Len(r.items) # 1 THEN DErr("RlpIncorrectListLen")
    ELSE LET content == Rlp_as_u8(r.items[1])
         IN  IF content.ok THEN DOk([content |-> content.val]) ELSE content

\* Storage: per keyspace a map from keys to bytes.  A storage is a function
\* from keyspaces to functions whose domain is the keys that are present.
Storage_get(st, keyspace, key) ==
    IF key \in DOMAIN st[keyspace] THEN OptSome(st[keyspace][key]) ELSE OptNone
Storage_set(st, keyspace, key, bytes) ==
    [st EXCEPT ![keyspace] =
        [k \in (DOMAIN @) \cup {key} |-> IF k = key THEN bytes ELSE @[k]]]
Storage_clear(st, keyspace) == [st EXCEPT ![keyspace] = <<>>]

\* MemoryStorage::default()
MemoryStorage_default == [ks \in Keyspaces |-> <<>>]

\* The storages a TransactionService is constructed over: nothing is stored
\* under KEYSPACE; another service may have stored under its own keyspace.
Storages ==
    {MemoryStorage_default}
      \cup {Storage_set(MemoryStorage_default, OtherKeyspace, id, RlpData(1, <<7>>)) :
                id \in ServiceIds}

\* TransactionService::get
TransactionService_get(st, id) ==
    LET bytes == Storage_get(st, KEYSPACE, id)
    IN  IF ~bytes.some THEN DOk(OptNone)
        ELSE LET d == Tx_decode(bytes.val)
             IN  IF d.ok THEN DOk(OptSome(d.val))
                 ELSE DErr(DeserializationError)

\* A set that files the transaction under its own identifier, whatever the
\* identifier it is given
TransactionService_setOwnId(st, id, transaction) ==
    Storage_set(st, KEYSPACE, TxId(transaction), Tx_encode(transaction))

\* TransactionService::set
TransactionService_set(st, id, transaction) ==
    Storage_set(st, KEYSPACE, id, Tx_encode(transaction))

\* TransactionService::clear
TransactionService_clear(st) == Storage_clear(st, KEYSPACE)

NoGet == [op |-> "none"]

InitService ==
    /\ IdleVerify
    /\ IdleCodec
    /\ IdleConc
    /\ storage \in Storages
    /\ history = <<>>
    /\ lastGet = NoGet

Get(id) ==
    /\ lastGet' =
          [op |-> "get", id |-> id, res |-> TransactionService_get(storage, id)]
    /\ UNCHANGED <<storage, history>>
    /\ UNCHANGED <<verifyVars, codecVars, concVars>>

Set(id, transaction) ==
    /\ Len(history) < MaxHistory
    /\ storage' = TransactionService_set(storage, id, transaction)
    /\ history' = Append(history, [op |-> "set", id |-> id, tx |-> transaction])
    /\ lastGet' = NoGet
    /\ UNCHANGED <<verifyVars, codecVars, concVars>>

Clear ==
    /\ Len(history) < MaxHistory
    /\ storage' = TransactionService_clear(storage)
    /\ history' = Append(history, [op |-> "clear"])
    /\ lastGet' = NoGet
    /\ UNCHANGED <<verifyVars, codecVars, concVars>>

NextService ==
    \/ \E id \in ServiceIds : Get(id)
    \/ \E id \in ServiceIds, transaction \in Txs : Set(id, transaction)
    \/ Clear

SpecService == InitService /\ [][NextService]_vars

\* The transaction of the most recent set for id in the operations h that no
\* clear follows, read off the operations from the last one backwards
RECURSIVE LastSet(_, _)
LastSet(h, id) ==
    IF Len(h) = 0 THEN OptNone
    ELSE LET e == h[Len(h)]
         IN  IF e.op = "clear" THEN OptNone
             ELSE IF e.id = id THEN OptSome(e.tx)
             ELSE LastSet(SubSeq(h, 1, Len(h) - 1), id)

\* The step performs one more operation, and it is a set
IsSetStep ==
    /\ Len(history') = Len(history) + 1
    /\ history'[Len(history')].op = "set"

\* C11: after any sequence of set and clear, get(id) returns Some(tx) for the
\* transaction of the most recent set for id since the last clear and None
\* if there is none; get leaves the stored mapping as it is; set(id, _)
\* leaves what get returns for every other identifier as it is.
C11_MostRecentSet ==
    /\ [](lastGet.op = "get" =>
              lastGet.res = DOk(LastSet(history, lastGet.id)))
    /\ [][(lastGet'.op = "get" /\ lastGet' # lastGet) => storage' = storage]_vars
    /\ [][IsSetStep =>
              \A j \in ServiceIds \ {history'[Len(history')].id} :
                  TransactionService_get(storage', j)
                      = TransactionService_get(storage, j)]_vars

\* An identifier is set, another one is set, the first is set again to a
\* different transaction, and get returns the later transaction.
C11_Witness ==
    /\ Len(history) = 3
    /\ \A i \in 1..3 : history[i].op = "set"
    /\ history[1].id = history[3].id
    /\ history[2].id # history[1].id
    /\ history[1].tx # history[3].tx
    /\ lastGet.op = "get"
    /\ lastGet.id = history[1].id
    /\ lastGet.res = DOk(OptSome(history[3].tx))

=============================================================================
